---- MODULE Spec2Model ----
(***************************************************************************)
(* The chat server of src/main.go: the listener loop of main(), one        *)
(* handleConnection goroutine per admitted connection, the registry        *)
(* (clients, mutex, connCount) and the messages history.                   *)
(*                                                                         *)
(* A connection is identified by the order in which it dialled (1, 2, ..). *)
(* Goroutine ids: the handler of connection c is c.                        *)
(* Every line written to or stored for a peer is a tuple                   *)
(* <<kind, ...>> standing for the formatted text of the source.            *)
(***************************************************************************)
EXTENDS Integers, Sequences, FiniteSets, TLC

\* ---------------------------------------------------------------- bounds
\* Connections that dial during one run.
NumConns == 3
\* main.go:95 sets maxConnections = 10; the model runs the same admission
\* code with a smaller capacity so that "full" is reached.
maxConnections == 2
\* Lines in the history a test starts from.
MaxHist == 2
Conns == 1..NumConns
\* Goroutines: the handler of connection c is c; Tester is the goroutine of
\* a test that calls the package's functions directly.
Tester == 0
Procs == Conns \cup {Tester}
\* Value of mutex when no goroutine holds it.
Free == -1

\* ------------------------------------------------------------ vocabulary
Token == "CHAT/1.0"
\* A frame that starts with the token and goes on with other characters.
TokenPlus == "CHAT/1.0+"
\* First frames a peer may send: the token, or something else.
FirstFrames == {Token, "JUNK"}
\* Name lines a peer may send (" " is a whitespace-only line).
NameLines == {"Alice", "Bob", " "}
\* Lines a peer may send once it has a name: a chat line, a private
\* message to Bob, a /msg line without a body, the /list command and a
\* line of more than 1024 bytes.
ChatLines == {"hello", "/msg Bob hi", "/msg Bob", "/list", "LONG"}

\* A test of the first frame that lets every frame pass.
HasPrefixAny(frame) == TRUE

\* strings.HasPrefix(string(buf[:n]), "CHAT/1.0") on the frames of the model.
HasPrefixToken(frame) == frame \in {Token, TokenPlus}

\* strings.TrimSpace on the lines of the model.
TrimSpace(line) == IF line = " " THEN "" ELSE line

\* What a peer sends over the life of its connection, in order: a first
\* frame, a name line, a chat line.
\* strings.HasPrefix(message, "/msg ") on the lines of the model.
HasPrefixMsg(line) ==
    line \in {"/msg Bob hi", "/msg Bob", "/msg Bob LONG"}

\* strings.SplitN(message, " ", 3) on the lines of the model.
SplitN3(line) ==
    IF line = "/msg Bob hi" THEN <<"/msg", "Bob", "hi">>
    ELSE IF line = "/msg Bob LONG" THEN <<"/msg", "Bob", "LONG">>
    ELSE IF line = "/msg Bob" THEN <<"/msg", "Bob">>
    ELSE <<line>>

\* len(message) on the lines of the model.
ByteLen(line) ==
    IF line = "LONG" THEN 1025
    ELSE IF line = "FULL" THEN 1024
    ELSE IF line = "/msg Bob LONG" THEN 1034
    ELSE IF line = "/msg Bob hi" THEN 11
    ELSE IF line = "/msg Bob" THEN 8
    ELSE IF line = "Bob" THEN 3
    ELSE IF line = "hi" THEN 2
    ELSE 5

\* The size limit of a chat line.
MaxMessage == 1024

\* Chat lines of the histories a test starts from.
PlainLines == {"hello"}

Script == <<FirstFrames, NameLines, ChatLines>>
\* Value of cnext for a peer that sends nothing more.
Finished == Len(Script) + 1

VARIABLES
    pc,         \* per connection: where it is (backlog, listener, handler)
    inbuf,      \* per connection: frames sent by the peer, not yet read
    cnext,      \* per connection: index in Script of the peer's next frame
    peerClosed, \* per connection: the peer's end is closed
    closeCalls, \* per connection: number of conn.Close() calls by the server
    outbox,     \* per connection: lines the peer received, in order
    cname,      \* per connection: the handler's local clientName
    clients,    \* the registry map: connection -> name
    mutex,      \* Free, or the goroutine holding the registry mutex
    messages,   \* the history slice
    connCount,  \* the active-connection counter
    bcast,      \* per goroutine: its running call of broadcastMessage
    everBound,  \* history: connections whose handler executed the bind
    cli         \* per client program: its position in the connect loop

vars == <<pc, inbuf, cnext, peerClosed, closeCalls, outbox, cname,
          clients, mutex, messages, connCount, bcast, everBound, cli>>

\* The server has closed the connection.
closed(c) == closeCalls[c] > 0

\* Names bound in a registry map.
NamesOf(m) == {m[k] : k \in DOMAIN m}

\* delete(clients, conn)
MapDelete(m, c) == [k \in DOMAIN m \ {c} |-> m[k]]

\* An assignment to the map that stores nothing.
MapPutNothing(m, c, n) == m

\* clients[conn] = name
MapPut(m, c, n) == [k \in DOMAIN m \cup {c} |-> IF k = c THEN n ELSE m[k]]

\* A client program at the start of its connect loop: connected := false;
\* retryCount := 0.  `dials` counts the calls of net.DialTimeout and `said`
\* is the last report printed.
CliStart == [at |-> "dial", retryCount |-> 0, connected |-> FALSE,
             dials |-> 0, said |-> ""]

\* A goroutine that is not inside broadcastMessage.
NoCall == [phase |-> "none", msg |-> <<>>, sender |-> 0, left |-> {},
           failed |-> 0, hist |-> <<>>]

\* A goroutine that has called broadcastMessage(msg, sender) and is at its
\* first statement, mutex.Lock().
Call(msg, sender) == [phase |-> "lock", msg |-> msg, sender |-> sender,
                      left |-> {}, failed |-> 0, hist |-> <<>>]

\* State of the package variables and of the network at program start.
Init ==
    /\ pc = [c \in Conns |-> "idle"]
    /\ inbuf = [c \in Conns |-> <<>>]
    /\ cnext = [c \in Conns |-> 1]
    /\ peerClosed = [c \in Conns |-> FALSE]
    /\ closeCalls = [c \in Conns |-> 0]
    /\ outbox = [c \in Conns |-> <<>>]
    /\ cname = [c \in Conns |-> ""]
    /\ clients = <<>>
    /\ mutex = Free
    /\ messages = <<>>
    /\ connCount = 0
    /\ bcast = [g \in Procs |-> NoCall]
    /\ everBound = {}
    /\ cli = [c \in Conns |-> CliStart]

\* ------------------------------------------------------------ the peers
\* Pcs at which the listener is busy with a connection (between Accept and
\* the next Accept).
ListenerPcs == {"handshake", "admit"}

ListenerBusy == \E c \in Conns : pc[c] \in ListenerPcs

\* A peer dials; connections are numbered in dial order and wait in the
\* accept backlog.  One connection waits at a time.
ClientDial(c) ==
    /\ pc[c] = "idle"
    /\ \A d \in Conns : d < c => pc[d] \notin {"idle", "backlog"}
    /\ pc' = [pc EXCEPT ![c] = "backlog"]
    /\ UNCHANGED <<inbuf, cnext, peerClosed, closeCalls, outbox, cname,
                   clients, mutex, messages, connCount>>
    /\ UNCHANGED <<bcast, everBound>>
    /\ UNCHANGED cli

\* The server-side positions of a connection at which the peer's k-th
\* frame is sent: a frame that arrives while the server is not about to
\* read is read exactly as one that arrives just before the next read, so
\* it is sent when the connection waits for a read (or, for the first
\* frame, for Accept).  A name line sent while the listener waits for the
\* first frame arrives together with it.
SendPcs ==
    << {"backlog", "handshake"},
       {"handshake", "readName"},
       {"join", "loop"} >>

\* A peer writes its next frame to its socket.
ClientSend(c) ==
    /\ ~peerClosed[c]
    /\ cnext[c] < Finished
    /\ pc[c] \in SendPcs[cnext[c]]
    /\ \E f \in Script[cnext[c]] :
          inbuf' = [inbuf EXCEPT ![c] = Append(@, f)]
    /\ cnext' = [cnext EXCEPT ![c] = @ + 1]
    /\ UNCHANGED <<pc, peerClosed, closeCalls, outbox, cname,
                   clients, mutex, messages, connCount>>
    /\ UNCHANGED <<bcast, everBound>>
    /\ UNCHANGED cli

\* A peer closes its end of the connection; it sends nothing more.
ClientClose(c) ==
    /\ pc[c] # "idle"
    /\ ~peerClosed[c]
    /\ peerClosed' = [peerClosed EXCEPT ![c] = TRUE]
    /\ cnext' = [cnext EXCEPT ![c] = Finished]
    /\ UNCHANGED <<pc, inbuf, closeCalls, outbox, cname,
                   clients, mutex, messages, connCount>>
    /\ UNCHANGED <<bcast, everBound>>
    /\ UNCHANGED cli

\* ------------------------------------------- conn.Write, conn.Close
\* Outcomes of conn.Write(line) on connection c: TRUE (written) or FALSE
\* (error).  A write on a connection the server closed fails; a write to a
\* peer that has gone may fail or be accepted by the local stack.
WriteOutcomes(c) ==
    IF closed(c) THEN {FALSE}
    ELSE IF peerClosed[c] THEN {TRUE, FALSE}
    ELSE {TRUE}

\* What the peer of c has received after an attempt to write `lines` to c
\* with outcome ok: a peer that has gone receives nothing.
Written(ob, c, lines, ok) ==
    IF ok /\ ~peerClosed[c] THEN [ob EXCEPT ![c] = @ \o lines] ELSE ob

\* n calls of conn.Close() by the server.  The first one ends the
\* connection: unread frames are dropped and the peer, seeing the end of
\* the stream, is gone.
CloseConn(c, n) ==
    /\ closeCalls' = [closeCalls EXCEPT ![c] = @ + n]
    /\ inbuf' = [inbuf EXCEPT ![c] = <<>>]
    /\ peerClosed' = [peerClosed EXCEPT ![c] = TRUE]
    /\ cnext' = [cnext EXCEPT ![c] = Finished]

\* ------------------------------------------------------- the listener
\* ln.Accept() returns the connection at the head of the backlog.
ListenerAccept(c) ==
    /\ pc[c] = "backlog"
    /\ ~ListenerBusy
    /\ pc' = [pc EXCEPT ![c] = "handshake"]
    /\ UNCHANGED <<inbuf, cnext, peerClosed, closeCalls, outbox, cname,
                   clients, mutex, messages, connCount>>
    /\ UNCHANGED <<bcast, everBound>>
    /\ UNCHANGED cli

\* conn.Read(buf) returned a first frame that is not the token, or an error:
\* the rejection line is written and the connection closed.
ListenerReject(c) ==
    /\ pc[c] = "handshake"
    /\ \/ inbuf[c] # <<>> /\ ~HasPrefixToken(Head(inbuf[c]))
       \/ inbuf[c] = <<>> /\ peerClosed[c]
    /\ \E ok \in WriteOutcomes(c) :
          outbox' = Written(outbox, c, << <<"invalid">> >>, ok)
    /\ CloseConn(c, 1)
    /\ pc' = [pc EXCEPT ![c] = "rejected"]
    /\ UNCHANGED <<cname, clients, mutex, messages, connCount>>
    /\ UNCHANGED <<bcast, everBound>>
    /\ UNCHANGED cli

\* conn.Read(buf) returned bytes that start with the token.  The read takes
\* every byte that has arrived (up to 1024).
ListenerHandshake(c) ==
    /\ pc[c] = "handshake"
    /\ inbuf[c] # <<>>
    /\ HasPrefixToken(Head(inbuf[c]))
    /\ inbuf' = [inbuf EXCEPT ![c] = <<>>]
    /\ pc' = [pc EXCEPT ![c] = "admit"]
    /\ UNCHANGED <<cnext, peerClosed, closeCalls, outbox, cname,
                   clients, mutex, messages, connCount>>
    /\ UNCHANGED <<bcast, everBound>>
    /\ UNCHANGED cli

\* The admission test with > in place of >=.
ServerFullOffByOne(n) == n > maxConnections

\* The admission test of the listener.
ServerFull(n) == n >= maxConnections

\* The rejection of a full server with the slot counted before the test.
ListenerFullCounted(c) ==
    /\ pc[c] = "admit"
    /\ mutex = Free
    /\ ServerFull(connCount)
    /\ connCount' = connCount + 1
    /\ \E ok \in WriteOutcomes(c) :
          outbox' = Written(outbox, c, << <<"full">> >>, ok)
    /\ CloseConn(c, 1)
    /\ pc' = [pc EXCEPT ![c] = "rejected"]
    /\ UNCHANGED <<cname, clients, mutex, messages, bcast>>
    /\ UNCHANGED everBound
    /\ UNCHANGED cli

\* mutex.Lock(); connCount >= maxConnections: unlock, write the rejection
\* line, close.
ListenerFull(c) ==
    /\ pc[c] = "admit"
    /\ mutex = Free
    /\ ServerFull(connCount)
    /\ \E ok \in WriteOutcomes(c) :
          outbox' = Written(outbox, c, << <<"full">> >>, ok)
    /\ CloseConn(c, 1)
    /\ pc' = [pc EXCEPT ![c] = "rejected"]
    /\ UNCHANGED <<cname, clients, mutex, messages, connCount>>
    /\ UNCHANGED <<bcast, everBound>>
    /\ UNCHANGED cli

\* mutex.Lock(); connCount++; mutex.Unlock(); go handleConnection(conn)
ListenerAdmit(c) ==
    /\ pc[c] = "admit"
    /\ mutex = Free
    /\ ~ServerFull(connCount)
    /\ connCount' = connCount + 1
    /\ pc' = [pc EXCEPT ![c] = "banner"]
    /\ UNCHANGED <<inbuf, cnext, peerClosed, closeCalls, outbox, cname,
                   clients, mutex, messages>>
    /\ UNCHANGED <<bcast, everBound>>
    /\ UNCHANGED cli

\* ------------------------------------------------- handleConnection
\* The function returns without the deferred mutex.Unlock registered: the
\* deferred closure starts with conn.Close() and then waits for the mutex.
\* `extra` is the number of conn.Close() calls made just before returning.
ReturnUnbound(c, extra) ==
    /\ CloseConn(c, extra + 1)
    /\ pc' = [pc EXCEPT ![c] = "deferLock"]

\* Welcome line, logo and name prompt are written; a failed write returns.
HandlerBanner(c) ==
    /\ pc[c] = "banner"
    /\ \E ok \in WriteOutcomes(c) :
          IF ok
          THEN /\ outbox' = Written(outbox, c,
                                    << <<"banner">>, <<"prompt">> >>, ok)
               /\ pc' = [pc EXCEPT ![c] = "readName"]
               /\ UNCHANGED <<inbuf, cnext, peerClosed, closeCalls>>
          ELSE /\ ReturnUnbound(c, 0)
               /\ UNCHANGED outbox
    /\ UNCHANGED <<cname, clients, mutex, messages, connCount>>
    /\ UNCHANGED <<bcast, everBound>>
    /\ UNCHANGED cli

\* reader.ReadString('\n') fails: the peer closed before sending a line.
HandlerReadNameError(c) ==
    /\ pc[c] = "readName"
    /\ inbuf[c] = <<>>
    /\ peerClosed[c]
    /\ ReturnUnbound(c, 0)
    /\ UNCHANGED <<outbox, cname, clients, mutex, messages, connCount>>
    /\ UNCHANGED <<bcast, everBound>>
    /\ UNCHANGED cli

\* The name line trims to "": rejection line, conn.Close(), return.
HandlerEmptyName(c) ==
    /\ pc[c] = "readName"
    /\ inbuf[c] # <<>>
    /\ TrimSpace(Head(inbuf[c])) = ""
    /\ \E ok \in WriteOutcomes(c) :
          outbox' = Written(outbox, c, << <<"empty">> >>, ok)
    /\ ReturnUnbound(c, 1)
    /\ UNCHANGED <<cname, clients, mutex, messages, connCount>>
    /\ UNCHANGED <<bcast, everBound>>
    /\ UNCHANGED cli

\* The name line is read and trimmed; the handler goes on to mutex.Lock().
HandlerReadName(c) ==
    /\ pc[c] = "readName"
    /\ inbuf[c] # <<>>
    /\ TrimSpace(Head(inbuf[c])) # ""
    /\ inbuf' = [inbuf EXCEPT ![c] = Tail(@)]
    /\ cname' = [cname EXCEPT ![c] = TrimSpace(Head(inbuf[c]))]
    /\ pc' = [pc EXCEPT ![c] = "bind"]
    /\ UNCHANGED <<cnext, peerClosed, closeCalls, outbox, clients, mutex,
                   messages, connCount>>
    /\ UNCHANGED <<bcast, everBound>>
    /\ UNCHANGED cli

\* The duplicate scan: some entry of the map holds the candidate name.
NameInUse(m, n) == \E k \in DOMAIN m : m[k] = n

\* mutex.Lock(); defer mutex.Unlock(); the connection is already a key of
\* clients: return (the deferred Unlock runs, then the closure).
HandlerAlreadyBound(c) ==
    /\ pc[c] = "bind"
    /\ mutex = Free
    /\ c \in DOMAIN clients
    /\ ReturnUnbound(c, 0)
    /\ UNCHANGED <<outbox, cname, clients, mutex, messages, connCount>>
    /\ UNCHANGED <<bcast, everBound>>
    /\ UNCHANGED cli

\* mutex.Lock(); defer mutex.Unlock(); the name is in use: rejection line,
\* conn.Close(), return (the deferred Unlock runs, then the closure).
HandlerDuplicate(c) ==
    /\ pc[c] = "bind"
    /\ mutex = Free
    /\ c \notin DOMAIN clients
    /\ NameInUse(clients, cname[c])
    /\ \E ok \in WriteOutcomes(c) :
          outbox' = Written(outbox, c, << <<"dup">> >>, ok)
    /\ ReturnUnbound(c, 1)
    /\ UNCHANGED <<cname, clients, mutex, messages, connCount>>
    /\ UNCHANGED <<bcast, everBound>>
    /\ UNCHANGED cli

\* The bind without the duplicate scan and with the mutex released right
\* after the insertion.
HandlerBindUnchecked(c) ==
    /\ pc[c] = "bind"
    /\ mutex = Free
    /\ clients' = MapPut(clients, c, cname[c])
    /\ pc' = [pc EXCEPT ![c] = "welcome"]
    /\ UNCHANGED <<inbuf, cnext, peerClosed, closeCalls, outbox, cname,
                   mutex, messages, connCount, bcast>>
    /\ everBound' = everBound \cup {c}
    /\ UNCHANGED cli

\* mutex.Lock(); defer mutex.Unlock(); clients[conn] = clientName.  The
\* mutex stays held by the handler: its Unlock is deferred to the return.
HandlerBind(c) ==
    /\ pc[c] = "bind"
    /\ mutex = Free
    /\ c \notin DOMAIN clients
    /\ ~NameInUse(clients, cname[c])
    /\ mutex' = c
    /\ clients' = MapPut(clients, c, cname[c])
    /\ pc' = [pc EXCEPT ![c] = "welcome"]
    /\ UNCHANGED <<inbuf, cnext, peerClosed, closeCalls, outbox, cname,
                   messages, connCount>>
    /\ UNCHANGED bcast
    /\ everBound' = everBound \cup {c}
    /\ UNCHANGED cli

\* conn.Write("Welcome, <name>!").  On an error the handler calls
\* mutex.Lock() (pc "relock"); otherwise it goes on to the replay.
HandlerWelcome(c) ==
    /\ pc[c] = "welcome"
    /\ \E ok \in WriteOutcomes(c) :
          /\ outbox' = Written(outbox, c, << <<"welcome", cname[c]>> >>, ok)
          /\ pc' = [pc EXCEPT ![c] = IF ok THEN "replay" ELSE "relock"]
    /\ UNCHANGED <<inbuf, cnext, peerClosed, closeCalls, cname, clients,
                   mutex, messages, connCount>>
    /\ UNCHANGED <<bcast, everBound>>
    /\ UNCHANGED cli

\* A replay that starts at the second line of the history.
ReplaySkipsFirst(h) == IF h = <<>> THEN h ELSE Tail(h)

\* The lines a replay of history h writes, in order.
ReplayLines(h) == h

\* for _, msg := range messages { conn.Write(msg) }: write errors are only
\* logged.  Then broadcastMessage(join notice, conn) is called (pc "join").
HandlerReplay(c) ==
    /\ pc[c] = "replay"
    /\ \E ok \in WriteOutcomes(c) :
          outbox' = Written(outbox, c, ReplayLines(messages), ok)
    /\ pc' = [pc EXCEPT ![c] = "join"]
    /\ bcast' = [bcast EXCEPT ![c] = Call(<<"join", cname[c]>>, c)]
    /\ UNCHANGED <<inbuf, cnext, peerClosed, closeCalls, cname, clients,
                   mutex, messages, connCount>>
    /\ UNCHANGED everBound
    /\ UNCHANGED cli

\* The deferred closure after conn.Close(): mutex.Lock(); connCount--;
\* mutex.Unlock().
Decrement(n) == n - 1

HandlerDeferCount(c) ==
    /\ pc[c] = "deferLock"
    /\ mutex = Free
    /\ connCount' = Decrement(connCount)
    /\ pc' = [pc EXCEPT ![c] = "deferCheck"]
    /\ UNCHANGED <<inbuf, cnext, peerClosed, closeCalls, outbox, cname,
                   clients, mutex, messages>>
    /\ UNCHANGED <<bcast, everBound>>
    /\ UNCHANGED cli

\* The closure's test `_, ok := clients[conn]`.
StillBound(m, c) == c \in DOMAIN m

\* The connection is still a key of clients: it is deleted (without the
\* mutex) and broadcastMessage(leave notice, conn) is called (pc "leave").
HandlerDeferLeave(c) ==
    /\ pc[c] = "deferCheck"
    /\ StillBound(clients, c)
    /\ clients' = MapDelete(clients, c)
    /\ pc' = [pc EXCEPT ![c] = "leave"]
    /\ bcast' = [bcast EXCEPT ![c] = Call(<<"left", clients[c]>>, c)]
    /\ UNCHANGED <<inbuf, cnext, peerClosed, closeCalls, outbox, cname,
                   mutex, messages, connCount>>
    /\ UNCHANGED everBound
    /\ UNCHANGED cli

\* The end of the closure with the leave notice broadcast without the test.
HandlerDeferAlwaysLeaves(c) ==
    /\ pc[c] = "deferCheck"
    /\ pc' = [pc EXCEPT ![c] = "leave"]
    /\ bcast' = [bcast EXCEPT ![c] = Call(<<"left", cname[c]>>, c)]
    /\ UNCHANGED <<inbuf, cnext, peerClosed, closeCalls, outbox, cname,
                   clients, mutex, messages, connCount>>
    /\ UNCHANGED everBound
    /\ UNCHANGED cli

\* The connection is not a key of clients: the closure ends, and with it
\* the goroutine and its locals.
HandlerDeferDone(c) ==
    /\ pc[c] = "deferCheck"
    /\ ~StillBound(clients, c)
    /\ pc' = [pc EXCEPT ![c] = "done"]
    /\ cname' = [cname EXCEPT ![c] = ""]
    /\ UNCHANGED <<inbuf, cnext, peerClosed, closeCalls, outbox,
                   clients, mutex, messages, connCount>>
    /\ UNCHANGED <<bcast, everBound>>
    /\ UNCHANGED cli

\* --------------------------------------------------- broadcastMessage
\* mutex.Lock(); clientsCopy := copy of clients; mutex.Unlock()
BroadcastSnapshot(g) ==
    /\ bcast[g].phase = "lock"
    /\ mutex = Free
    /\ bcast' = [bcast EXCEPT ![g].phase = "fanout",
                              ![g].left = DOMAIN clients]
    /\ UNCHANGED <<pc, inbuf, cnext, peerClosed, closeCalls, outbox, cname,
                   clients, mutex, messages, connCount>>
    /\ UNCHANGED everBound
    /\ UNCHANGED cli

\* The fan-out loop without the test that skips the sender.
IsRecipientAlways(conn, sender) == TRUE

\* The test of the fan-out loop: the sender is skipped.
IsRecipient(conn, sender) == conn # sender

\* The fan-out loop if it gave up at the first failed write.
BroadcastWriteAborts(g) ==
    /\ bcast[g].phase = "fanout"
    /\ \E r \in bcast[g].left :
          IF IsRecipient(r, bcast[g].sender)
          THEN \E ok \in WriteOutcomes(r) :
                  /\ outbox' = Written(outbox, r, <<bcast[g].msg>>, ok)
                  /\ bcast' = [bcast EXCEPT
                                 ![g].left = IF ok THEN @ \ {r} ELSE {},
                                 ![g].phase = IF ok THEN "fanout" ELSE "remove",
                                 ![g].failed = IF ok THEN 0 ELSE r]
          ELSE /\ bcast' = [bcast EXCEPT ![g].left = @ \ {r}]
               /\ UNCHANGED outbox
    /\ UNCHANGED <<pc, inbuf, cnext, peerClosed, closeCalls, cname,
                   clients, mutex, messages, connCount>>
    /\ UNCHANGED everBound
    /\ UNCHANGED cli

\* The fan-out loop if it ranged over clients itself and not over the copy.
BroadcastWriteLive(g) ==
    /\ bcast[g].phase = "fanout"
    /\ \E r \in bcast[g].left \cup DOMAIN clients :
          IF IsRecipient(r, bcast[g].sender)
          THEN \E ok \in WriteOutcomes(r) :
                  /\ outbox' = Written(outbox, r, <<bcast[g].msg>>, ok)
                  /\ bcast' = [bcast EXCEPT
                                 ![g].left = @ \ {r},
                                 ![g].phase = IF ok THEN "fanout" ELSE "remove",
                                 ![g].failed = IF ok THEN 0 ELSE r]
          ELSE /\ bcast' = [bcast EXCEPT ![g].left = @ \ {r}]
               /\ UNCHANGED outbox
    /\ UNCHANGED <<pc, inbuf, cnext, peerClosed, closeCalls, cname,
                   clients, mutex, messages, connCount>>
    /\ UNCHANGED everBound
    /\ UNCHANGED cli

\* One iteration of `for conn, name := range clientsCopy` (the order of a
\* map iteration is not fixed): the line is written to conn unless conn is
\* the sender.  After a failed write the goroutine goes on to mutex.Lock().
BroadcastWrite(g) ==
    /\ bcast[g].phase = "fanout"
    /\ \E r \in bcast[g].left :
          IF IsRecipient(r, bcast[g].sender)
          THEN \E ok \in WriteOutcomes(r) :
                  /\ outbox' = Written(outbox, r, <<bcast[g].msg>>, ok)
                  /\ bcast' = [bcast EXCEPT
                                 ![g].left = @ \ {r},
                                 ![g].phase = IF ok THEN "fanout" ELSE "remove",
                                 ![g].failed = IF ok THEN 0 ELSE r]
          ELSE /\ bcast' = [bcast EXCEPT ![g].left = @ \ {r}]
               /\ UNCHANGED outbox
    /\ UNCHANGED <<pc, inbuf, cnext, peerClosed, closeCalls, cname,
                   clients, mutex, messages, connCount>>
    /\ UNCHANGED everBound
    /\ UNCHANGED cli

\* After a failed write: mutex.Lock(); delete(clients, conn); mutex.Unlock()
BroadcastRemove(g) ==
    /\ bcast[g].phase = "remove"
    /\ mutex = Free
    /\ clients' = MapDelete(clients, bcast[g].failed)
    /\ bcast' = [bcast EXCEPT ![g].phase = "fanout", ![g].failed = 0]
    /\ UNCHANGED <<pc, inbuf, cnext, peerClosed, closeCalls, outbox, cname,
                   mutex, messages, connCount>>
    /\ UNCHANGED everBound
    /\ UNCHANGED cli

\* Where a handler goes on when its call of broadcastMessage returns: after
\* the join notice or a chat line into the message loop; after the leave
\* notice of the loop to the return; after the leave notice of the deferred
\* closure the goroutine ends.
AfterBroadcast(at) ==
    IF at \in {"join", "chat"} THEN "loop"
    ELSE IF at = "leaveLoop" THEN "return"
    ELSE "done"

\* The fan-out loop is over: broadcastMessage returns.
BroadcastReturn(g) ==
    /\ bcast[g].phase = "fanout"
    /\ bcast[g].left = {}
    /\ bcast' = [bcast EXCEPT ![g] = NoCall]
    /\ pc' = IF g \in Conns
             THEN [pc EXCEPT ![g] = AfterBroadcast(pc[g])]
             ELSE pc
    /\ cname' = IF g \in Conns /\ AfterBroadcast(pc[g]) = "done"
                THEN [cname EXCEPT ![g] = ""]
                ELSE cname
    /\ UNCHANGED <<inbuf, cnext, peerClosed, closeCalls, outbox,
                   clients, mutex, messages, connCount>>
    /\ UNCHANGED everBound
    /\ UNCHANGED cli

\* The handler's mutex.Lock() after a failed welcome write, made while it
\* holds the mutex; then delete(clients, conn), mutex.Unlock() and return
\* (the deferred Unlock runs, then the closure).
HandlerRelock(c) ==
    /\ pc[c] = "relock"
    /\ mutex = Free
    /\ clients' = MapDelete(clients, c)
    /\ ReturnUnbound(c, 0)
    /\ UNCHANGED <<outbox, cname, mutex, messages, connCount, bcast>>
    /\ UNCHANGED everBound
    /\ UNCHANGED cli

\* --------------------------------------------------- the message loop
\* What the loop of main.go does with a trimmed line: the tests of lines
\* 326-364 in their order.  A /msg line of fewer than three parts passes
\* the test of line 332 and goes on to the tests below it.
LoopReaction(message) ==
    IF message = "" THEN "skip"
    ELSE IF HasPrefixMsg(message) /\ Len(SplitN3(message)) = 3
         THEN "private"
    ELSE IF message = "/list" THEN "list"
    ELSE IF ByteLen(message) > MaxMessage THEN "toolong"
    ELSE "chat"

\* findConnectionByName: the connections bound to the name; the loop over
\* the map returns one of them, or nil when there is none.
ConnectionsByName(m, name) == {k \in DOMAIN m : m[k] = name}

\* conn.Write of one line to connection c, whatever the outcome.
WriteLine(ob, c, line) == Written(ob, c, <<line>>, TRUE \in WriteOutcomes(c))

\* A line is read in the loop that needs neither the mutex nor the
\* history: an empty line, a private message, a line that is too long.
HandlerLoopLine(c) ==
    /\ pc[c] = "loop"
    /\ inbuf[c] # <<>>
    /\ inbuf' = [inbuf EXCEPT ![c] = Tail(@)]
    /\ LET message == TrimSpace(Head(inbuf[c]))
           parts == SplitN3(message)
       IN  /\ LoopReaction(message) \in {"skip", "private", "toolong"}
           /\ IF LoopReaction(message) = "skip"
              THEN outbox' = outbox
              ELSE IF LoopReaction(message) = "toolong"
              THEN outbox' = WriteLine(outbox, c, <<"toolong">>)
              ELSE IF ConnectionsByName(clients, parts[2]) = {}
              THEN outbox' = WriteLine(outbox, c, <<"notfound", parts[2]>>)
              ELSE \E t \in ConnectionsByName(clients, parts[2]) :
                      outbox' = WriteLine(
                                   WriteLine(outbox, t,
                                             <<"pm", cname[c], parts[3]>>),
                                   c, <<"pmto", parts[2], parts[3]>>)
    /\ UNCHANGED <<pc, cnext, peerClosed, closeCalls, cname, clients, mutex,
                   messages, connCount, bcast, everBound>>
    /\ UNCHANGED cli

\* /list: mutex.Lock(); the names of clients are collected;
\* mutex.Unlock(); the list is written to the requester.
HandlerLoopList(c) ==
    /\ pc[c] = "loop"
    /\ inbuf[c] # <<>>
    /\ LoopReaction(TrimSpace(Head(inbuf[c]))) = "list"
    /\ mutex = Free
    /\ inbuf' = [inbuf EXCEPT ![c] = Tail(@)]
    /\ outbox' = WriteLine(outbox, c, <<"list", NamesOf(clients)>>)
    /\ UNCHANGED <<pc, cnext, peerClosed, closeCalls, cname, clients, mutex,
                   messages, connCount, bcast, everBound>>
    /\ UNCHANGED cli

\* Any other line is a chat line: it is formatted and append(messages, ...)
\* reads the slice, without the mutex.
HandlerLoopChat(c) ==
    /\ pc[c] = "loop"
    /\ inbuf[c] # <<>>
    /\ LoopReaction(TrimSpace(Head(inbuf[c]))) = "chat"
    /\ inbuf' = [inbuf EXCEPT ![c] = Tail(@)]
    /\ pc' = [pc EXCEPT ![c] = "chat"]
    /\ bcast' = [bcast EXCEPT ![c] =
                    [NoCall EXCEPT
                        !.phase = "append",
                        !.msg = <<"chat", cname[c],
                                  TrimSpace(Head(inbuf[c]))>>,
                        !.sender = c,
                        !.hist = messages]]
    /\ UNCHANGED <<cnext, peerClosed, closeCalls, outbox, cname, clients,
                   mutex, messages, connCount, everBound>>
    /\ UNCHANGED cli

\* messages = append(messages, fullMessage) stores the slice it read
\* extended by the line; then broadcastMessage(fullMessage, conn) is called.
HandlerAppend(c) ==
    /\ pc[c] = "chat"
    /\ bcast[c].phase = "append"
    /\ messages' = Append(bcast[c].hist, bcast[c].msg)
    /\ bcast' = [bcast EXCEPT ![c] = Call(bcast[c].msg, c)]
    /\ UNCHANGED <<pc, inbuf, cnext, peerClosed, closeCalls, outbox, cname,
                   clients, mutex, connCount, everBound>>
    /\ UNCHANGED cli

\* reader.ReadString fails in the loop with an error that is not a timeout:
\* mutex.Lock(); delete(clients, conn); mutex.Unlock(); then the leave
\* notice and the return.
HandlerLoopReadError(c) ==
    /\ pc[c] = "loop"
    /\ inbuf[c] = <<>>
    /\ peerClosed[c]
    /\ mutex = Free
    /\ clients' = MapDelete(clients, c)
    /\ pc' = [pc EXCEPT ![c] = "leaveLoop"]
    /\ bcast' = [bcast EXCEPT ![c] = Call(<<"left", cname[c]>>, c)]
    /\ UNCHANGED <<inbuf, cnext, peerClosed, closeCalls, outbox, cname,
                   mutex, messages, connCount, everBound>>
    /\ UNCHANGED cli

\* The return of the loop: the deferred mutex.Unlock() of line 261 runs,
\* then the closure starts.
HandlerLoopReturn(c) ==
    /\ pc[c] = "return"
    /\ mutex' = Free
    /\ ReturnUnbound(c, 0)
    /\ UNCHANGED <<outbox, cname, clients, messages, connCount, bcast,
                   everBound>>
    /\ UNCHANGED cli

\* ------------------------------------------------------ specification
\* The steps of main.go that can be taken from program start.
Next ==
    \/ \E c \in Conns : ClientDial(c)
    \/ \E c \in Conns : ClientSend(c)
    \/ \E c \in Conns : ClientClose(c)
    \/ \E c \in Conns : ListenerAccept(c)
    \/ \E c \in Conns : ListenerReject(c)
    \/ \E c \in Conns : ListenerHandshake(c)
    \/ \E c \in Conns : ListenerFull(c)
    \/ \E c \in Conns : ListenerAdmit(c)
    \/ \E c \in Conns : HandlerBanner(c)
    \/ \E c \in Conns : HandlerReadNameError(c)
    \/ \E c \in Conns : HandlerEmptyName(c)
    \/ \E c \in Conns : HandlerReadName(c)
    \/ \E c \in Conns : HandlerBind(c)
    \/ \E c \in Conns : HandlerWelcome(c)
    \/ \E c \in Conns : HandlerReplay(c)
    \/ \E c \in Conns : HandlerDeferCount(c)
    \/ \E c \in Conns : HandlerDeferDone(c)

Spec == Init /\ [][Next]_vars

\* Every step of the listener and of the handler of connection c.
ServerStep(c) ==
    \/ ListenerAccept(c) \/ ListenerReject(c) \/ ListenerHandshake(c)
    \/ ListenerFull(c) \/ ListenerAdmit(c)
    \/ HandlerBanner(c) \/ HandlerReadNameError(c) \/ HandlerEmptyName(c)
    \/ HandlerReadName(c) \/ HandlerBind(c) \/ HandlerWelcome(c)
    \/ HandlerReplay(c) \/ HandlerDeferCount(c) \/ HandlerDeferDone(c)

\* The Go scheduler runs every goroutine that can take a step; the peers
\* are free to stay silent.
FairSpec == Spec /\ \A c \in Conns : WF_vars(ServerStep(c))

\* A peer sends, as its first frame, the token with more characters on the
\* same line.
ClientSendTokenPlus(c) ==
    /\ ~peerClosed[c]
    /\ cnext[c] = 1
    /\ pc[c] \in SendPcs[1]
    /\ inbuf' = [inbuf EXCEPT ![c] = Append(@, TokenPlus)]
    /\ cnext' = [cnext EXCEPT ![c] = @ + 1]
    /\ UNCHANGED <<pc, peerClosed, closeCalls, outbox, cname,
                   clients, mutex, messages, connCount>>
    /\ UNCHANGED <<bcast, everBound>>
    /\ UNCHANGED cli

\* The program with peers that may send such a first frame.
NextFrames ==
    \/ Next
    \/ \E c \in Conns : ClientSendTokenPlus(c)

SpecFrames == Init /\ [][NextFrames]_vars

\* Every step of the source, including those that main.go never takes when
\* started from Init.
NextAll ==
    \/ Next
    \/ \E c \in Conns : HandlerAlreadyBound(c)
    \/ \E c \in Conns : HandlerDuplicate(c)
    \/ \E c \in Conns : HandlerRelock(c)
    \/ \E c \in Conns : HandlerLoopLine(c)
    \/ \E c \in Conns : HandlerLoopList(c)
    \/ \E c \in Conns : HandlerLoopChat(c)
    \/ \E c \in Conns : HandlerAppend(c)
    \/ \E c \in Conns : HandlerLoopReadError(c)
    \/ \E c \in Conns : HandlerLoopReturn(c)
    \/ \E c \in Conns : HandlerDeferLeave(c)
    \/ \E g \in Procs : BroadcastSnapshot(g)
    \/ \E g \in Procs : BroadcastWrite(g)
    \/ \E g \in Procs : BroadcastRemove(g)
    \/ \E g \in Procs : BroadcastReturn(g)

SpecAll == Init /\ [][NextAll]_vars

\* ------------------------------------------- the package under a test
\* The tests of main_test.go call handleConnection and broadcastMessage
\* directly on a registry and a history that the test has filled.
Names == {"Alice", "Bob"}

\* fmt.Sprintf("%s: %s", clientName, message)
ChatLine(name, text) == <<"chat", name, text>>

\* The histories of at most n lines.
Histories(n) ==
    UNION {[1..k -> {ChatLine(nm, t) : nm \in Names, t \in PlainLines}] :
              k \in 0..n}

\* The registries a test may fill: sessions with pairwise distinct names.
Registries ==
    {m \in UNION {[S -> Names] : S \in SUBSET Conns} :
        \A a, b \in DOMAIN m : a # b => m[a] # m[b]}

\* A test has registered the sessions of a registry and filled the history,
\* has started handleConnection on at most one connection (registered or
\* not) whose peer sends a name line, and calls broadcastMessage at most
\* once itself.
InitUnit ==
    /\ clients \in Registries
    /\ messages \in Histories(MaxHist)
    /\ \E H \in {S \in SUBSET Conns : Cardinality(S) <= 1} :
          /\ pc = [c \in Conns |->
                     IF c \in H THEN "banner"
                     ELSE IF c \in DOMAIN clients THEN "session"
                     ELSE "idle"]
          /\ cnext = [c \in Conns |-> IF c \in H THEN 2 ELSE Finished]
          /\ connCount = Cardinality(H)
    /\ bcast \in [Procs -> {NoCall} \cup
                     {Call(ChatLine("Alice", "hello"), s) : s \in Conns}]
    /\ \A c \in Conns : bcast[c] = NoCall
    /\ inbuf = [c \in Conns |-> <<>>]
    /\ peerClosed = [c \in Conns |-> FALSE]
    /\ closeCalls = [c \in Conns |-> 0]
    /\ outbox = [c \in Conns |-> <<>>]
    /\ cname = [c \in Conns |-> ""]
    /\ mutex = Free
    /\ everBound = {}
    /\ cli = [c \in Conns |-> CliStart]

\* The steps of handleConnection and broadcastMessage under a test.
NextUnit ==
    \/ \E c \in Conns : ClientSend(c)
    \/ \E c \in Conns : ClientClose(c)
    \/ \E c \in Conns : HandlerBanner(c)
    \/ \E c \in Conns : HandlerReadNameError(c)
    \/ \E c \in Conns : HandlerEmptyName(c)
    \/ \E c \in Conns : HandlerReadName(c)
    \/ \E c \in Conns : HandlerAlreadyBound(c)
    \/ \E c \in Conns : HandlerDuplicate(c)
    \/ \E c \in Conns : HandlerBind(c)
    \/ \E c \in Conns : HandlerWelcome(c)
    \/ \E c \in Conns : HandlerReplay(c)
    \/ \E c \in Conns : HandlerDeferCount(c)
    \/ \E c \in Conns : HandlerDeferLeave(c)
    \/ \E c \in Conns : HandlerDeferDone(c)
    \/ \E g \in Procs : BroadcastSnapshot(g)
    \/ \E g \in Procs : BroadcastWrite(g)
    \/ \E g \in Procs : BroadcastRemove(g)
    \/ \E g \in Procs : BroadcastReturn(g)

SpecUnit == InitUnit /\ [][NextUnit]_vars

\* ------------------------------------ the lines the message loop writes
\* Lines read in the message loop, by length: a short one, one of exactly
\* 1024 bytes, one of 1025 bytes, and private messages with a short and
\* with a long body.
FormatLines == {"hello", "FULL", "LONG", "/msg Bob hi", "/msg Bob LONG"}

\* The lines that the loop of main.go hands to conn.Write on account of one
\* trimmed line of the session called name, with the registry m: the tests
\* and the fmt.Sprintf calls of lines 326-369.
LoopWrites(name, message, m) ==
    LET parts == SplitN3(message)
    IN  IF LoopReaction(message) = "private"
        THEN IF ConnectionsByName(m, parts[2]) = {}
             THEN << <<"notfound", parts[2]>> >>
             ELSE << <<"pm", name, parts[3]>>,
                     <<"pmto", parts[2], parts[3]>> >>
        ELSE IF LoopReaction(message) = "list"
        THEN << <<"list", NamesOf(m)>> >>
        ELSE IF LoopReaction(message) = "toolong"
        THEN << <<"toolong">> >>
        ELSE IF LoopReaction(message) = "chat"
        THEN << ChatLine(name, message) >>
        ELSE <<>>

\* len of a line written by the loop, without its newline: the bytes of
\* the format string plus those of its arguments.
WireLen(l) ==
    IF l[1] = "chat" THEN ByteLen(l[2]) + 2 + ByteLen(l[3])
    ELSE IF l[1] = "pm" THEN 9 + ByteLen(l[2]) + 3 + ByteLen(l[3])
    ELSE IF l[1] = "pmto" THEN 7 + ByteLen(l[2]) + 3 + ByteLen(l[3])
    ELSE IF l[1] = "notfound" THEN 5 + ByteLen(l[2]) + 10
    ELSE 38

\* Named sessions in their message loop, each with one line to read.
InitFormat ==
    /\ clients \in Registries
    /\ pc = [c \in Conns |->
               IF c \in DOMAIN clients THEN "loop" ELSE "idle"]
    /\ cname = [c \in Conns |->
                  IF c \in DOMAIN clients THEN clients[c] ELSE ""]
    /\ inbuf \in [Conns -> {<<>>} \cup {<<l>> : l \in FormatLines}]
    /\ \A c \in Conns : inbuf[c] # <<>> <=> c \in DOMAIN clients
    /\ cnext = [c \in Conns |-> Finished]
    /\ connCount = Cardinality(DOMAIN clients)
    /\ peerClosed = [c \in Conns |-> FALSE]
    /\ closeCalls = [c \in Conns |-> 0]
    /\ outbox = [c \in Conns |-> <<>>]
    /\ messages = <<>>
    /\ mutex = Free
    /\ bcast = [g \in Procs |-> NoCall]
    /\ everBound = DOMAIN clients
    /\ cli = [c \in Conns |-> CliStart]

\* The loop reads the line of session c; outbox[c] records the lines it
\* hands to conn.Write on account of it.
FormatStep(c) ==
    /\ pc[c] = "loop"
    /\ inbuf[c] # <<>>
    /\ inbuf' = [inbuf EXCEPT ![c] = Tail(@)]
    /\ outbox' = [outbox EXCEPT ![c] =
                     LoopWrites(cname[c], TrimSpace(Head(inbuf[c])), clients)]
    /\ UNCHANGED <<pc, cnext, peerClosed, closeCalls, cname, clients, mutex,
                   messages, connCount, bcast, everBound>>
    /\ UNCHANGED cli

NextFormat == \E c \in Conns : FormatStep(c)

SpecFormat == InitFormat /\ [][NextFormat]_vars

\* Every step of goroutine g under a test: of the handler started on
\* connection g, or of a call of broadcastMessage that g makes.
UnitStep(g) ==
    \/ /\ g \in Conns
       /\ \/ HandlerBanner(g) \/ HandlerReadNameError(g)
          \/ HandlerEmptyName(g) \/ HandlerReadName(g)
          \/ HandlerAlreadyBound(g) \/ HandlerDuplicate(g)
          \/ HandlerBind(g) \/ HandlerWelcome(g) \/ HandlerReplay(g)
          \/ HandlerDeferCount(g) \/ HandlerDeferLeave(g)
          \/ HandlerDeferDone(g)
    \/ BroadcastSnapshot(g) \/ BroadcastWrite(g)
    \/ BroadcastRemove(g) \/ BroadcastReturn(g)

\* Under a test too the scheduler runs every goroutine that can take a
\* step.
FairSpecUnit == SpecUnit /\ \A g \in Procs : WF_vars(UnitStep(g))

\* ------------------------------------ the server of unnamed/part_002
\* A second build of the server.  Its main() and the start of its handler
\* (deferred closure, banner, prompt, name) are those of main.go; it binds
\* the name and releases the mutex at once, and broadcastMessage keeps the
\* mutex for the whole fan-out.

\* fmt.Sprintf("[%s] %s", timestamp, message)
Stamp(line) == <<"ts">> \o line

\* fmt.Sprintf("[%s][%s]:%s", time.Now().Format(...), clientName, message)
P2_ChatLine(name, text) == <<"ts", "chat", name, text>>

\* mutex.Lock(); clients[conn] = clientName; mutex.Unlock(): no test of
\* the name against the names in use.
P2_Bind(c) ==
    /\ pc[c] = "bind"
    /\ mutex = Free
    /\ clients' = MapPut(clients, c, cname[c])
    /\ everBound' = everBound \cup {c}
    /\ pc' = [pc EXCEPT ![c] = "welcome"]
    /\ UNCHANGED <<inbuf, cnext, peerClosed, closeCalls, outbox, cname,
                   mutex, messages, connCount, bcast>>
    /\ UNCHANGED cli

\* The welcome line is written; a failed write goes on to unbind.
P2_Welcome(c) ==
    /\ pc[c] = "welcome"
    /\ \E ok \in WriteOutcomes(c) :
          /\ outbox' = Written(outbox, c, << <<"welcome", cname[c]>> >>, ok)
          /\ pc' = [pc EXCEPT ![c] = IF ok THEN "replay" ELSE "unbind"]
    /\ UNCHANGED <<inbuf, cnext, peerClosed, closeCalls, cname, clients,
                   mutex, messages, connCount, bcast, everBound>>
    /\ UNCHANGED cli

\* After the failed welcome: mutex.Lock(); delete(clients, conn);
\* mutex.Unlock(); return.
P2_Unbind(c) ==
    /\ pc[c] = "unbind"
    /\ mutex = Free
    /\ clients' = MapDelete(clients, c)
    /\ ReturnUnbound(c, 0)
    /\ UNCHANGED <<outbox, cname, mutex, messages, connCount, bcast,
                   everBound>>
    /\ UNCHANGED cli

\* Where a handler goes on when its call of broadcastMessage returns.
P2_After(at) ==
    IF at \in {"join", "chat"} THEN "loop"
    ELSE IF at = "leaveLoop" THEN "return"
    ELSE "done"

\* broadcastMessage: mutex.Lock(); defer mutex.Unlock(); the stamped line
\* is written to every key of clients but the sender; write errors are
\* only logged.  The mutex is held from the first write to the last.
P2_Broadcast(g) ==
    /\ bcast[g].phase = "lock"
    /\ mutex = Free
    /\ outbox' = [r \in Conns |->
                    IF r \in DOMAIN clients /\ IsRecipient(r, bcast[g].sender)
                    THEN Written(outbox, r, <<Stamp(bcast[g].msg)>>,
                                 TRUE \in WriteOutcomes(r))[r]
                    ELSE outbox[r]]
    /\ bcast' = [bcast EXCEPT ![g] = NoCall]
    /\ pc' = [pc EXCEPT ![g] = P2_After(pc[g])]
    /\ cname' = IF P2_After(pc[g]) = "done"
                THEN [cname EXCEPT ![g] = ""]
                ELSE cname
    /\ UNCHANGED <<inbuf, cnext, peerClosed, closeCalls, clients, mutex,
                   messages, connCount, everBound>>
    /\ UNCHANGED cli

\* The read error of the loop without the delete: the leave notice is sent
\* with the session still in clients.
P2_LoopReadErrorKeeps(c) ==
    /\ pc[c] = "loop"
    /\ inbuf[c] = <<>>
    /\ peerClosed[c]
    /\ mutex = Free
    /\ pc' = [pc EXCEPT ![c] = "leaveLoop"]
    /\ bcast' = [bcast EXCEPT ![c] = Call(<<"left", cname[c]>>, c)]
    /\ UNCHANGED <<inbuf, cnext, peerClosed, closeCalls, outbox, cname,
                   clients, mutex, messages, connCount, everBound>>
    /\ UNCHANGED cli

\* reader.ReadString fails in the message loop: mutex.Lock();
\* delete(clients, conn); mutex.Unlock(); then the leave notice.
P2_LoopReadError(c) ==
    /\ pc[c] = "loop"
    /\ inbuf[c] = <<>>
    /\ peerClosed[c]
    /\ mutex = Free
    /\ clients' = MapDelete(clients, c)
    /\ pc' = [pc EXCEPT ![c] = "leaveLoop"]
    /\ bcast' = [bcast EXCEPT ![c] = Call(<<"left", cname[c]>>, c)]
    /\ UNCHANGED <<inbuf, cnext, peerClosed, closeCalls, outbox, cname,
                   mutex, messages, connCount, everBound>>
    /\ UNCHANGED cli

\* The return after the leave notice of the loop: the deferred closure
\* starts.
P2_LoopReturn(c) ==
    /\ pc[c] = "return"
    /\ ReturnUnbound(c, 0)
    /\ UNCHANGED <<outbox, cname, clients, mutex, messages, connCount,
                   bcast, everBound>>
    /\ UNCHANGED cli

\* What the loop of part_002 does with a trimmed line: the tests of lines
\* 203-245 in their order.  There is no test of the length.
P2_Reaction(message) ==
    IF HasPrefixMsg(message)
    THEN IF Len(SplitN3(message)) = 3 THEN "private" ELSE "usage"
    ELSE IF message = "/list" THEN "list"
    ELSE IF message # "" THEN "chat"
    ELSE "skip"

\* /msg with a recipient and a body: the recipient is looked up under the
\* mutex; the private line is written to it and the sender is told whether
\* that write succeeded, or that there is no such user.
P2_LoopPrivate(c) ==
    /\ pc[c] = "loop"
    /\ inbuf[c] # <<>>
    /\ P2_Reaction(TrimSpace(Head(inbuf[c]))) = "private"
    /\ mutex = Free
    /\ inbuf' = [inbuf EXCEPT ![c] = Tail(@)]
    /\ LET parts == SplitN3(TrimSpace(Head(inbuf[c])))
       IN  IF ConnectionsByName(clients, parts[2]) = {}
           THEN outbox' = WriteLine(outbox, c, <<"notfound", parts[2]>>)
           ELSE \E t \in ConnectionsByName(clients, parts[2]) :
                  \E ok \in WriteOutcomes(t) :
                     outbox' = WriteLine(
                                  Written(outbox, t,
                                     << <<"private", cname[c], parts[3]>> >>,
                                     ok),
                                  c,
                                  IF ok THEN <<"pmsent", parts[2]>>
                                        ELSE <<"pmfailed", parts[2]>>)
    /\ UNCHANGED <<pc, cnext, peerClosed, closeCalls, cname, clients, mutex,
                   messages, connCount, bcast, everBound>>
    /\ UNCHANGED cli

\* /msg with fewer than three parts: the usage line is written to the
\* sender.
P2_LoopUsage(c) ==
    /\ pc[c] = "loop"
    /\ inbuf[c] # <<>>
    /\ P2_Reaction(TrimSpace(Head(inbuf[c]))) = "usage"
    /\ inbuf' = [inbuf EXCEPT ![c] = Tail(@)]
    /\ outbox' = WriteLine(outbox, c, <<"usage">>)
    /\ UNCHANGED <<pc, cnext, peerClosed, closeCalls, cname, clients, mutex,
                   messages, connCount, bcast, everBound>>
    /\ UNCHANGED cli

\* /list: under the mutex one line is built for every key of clients (a
\* name bound twice is listed twice); the block is written to the requester.
P2_LoopList(c) ==
    /\ pc[c] = "loop"
    /\ inbuf[c] # <<>>
    /\ P2_Reaction(TrimSpace(Head(inbuf[c]))) = "list"
    /\ mutex = Free
    /\ inbuf' = [inbuf EXCEPT ![c] = Tail(@)]
    /\ outbox' = WriteLine(outbox, c,
                    <<"list",
                      [n \in NamesOf(clients) |->
                          Cardinality(ConnectionsByName(clients, n))]>>)
    /\ UNCHANGED <<pc, cnext, peerClosed, closeCalls, cname, clients, mutex,
                   messages, connCount, bcast, everBound>>
    /\ UNCHANGED cli

\* A message loop that took the line that arrived last, not first.
P2_LoopChatLast(c) ==
    /\ pc[c] = "loop"
    /\ inbuf[c] # <<>>
    /\ LET message == TrimSpace(inbuf[c][Len(inbuf[c])])
       IN  /\ P2_Reaction(message) \in {"chat", "skip"}
           /\ inbuf' = [inbuf EXCEPT ![c] = SubSeq(@, 1, Len(@) - 1)]
           /\ IF message = ""
              THEN UNCHANGED <<pc, bcast>>
              ELSE /\ pc' = [pc EXCEPT ![c] = "chat"]
                   /\ bcast' = [bcast EXCEPT ![c] =
                                   [NoCall EXCEPT
                                       !.phase = "append",
                                       !.msg = P2_ChatLine(cname[c], message),
                                       !.sender = c,
                                       !.hist = messages]]
    /\ UNCHANGED <<cnext, peerClosed, closeCalls, outbox, cname, clients,
                   mutex, messages, connCount, everBound>>
    /\ UNCHANGED cli

\* A line is read in the message loop and trimmed; a line that is neither
\* a command nor empty is formatted, and append(messages, ...) reads the
\* slice.
P2_LoopChat(c) ==
    /\ pc[c] = "loop"
    /\ inbuf[c] # <<>>
    /\ P2_Reaction(TrimSpace(Head(inbuf[c]))) \in {"chat", "skip"}
    /\ inbuf' = [inbuf EXCEPT ![c] = Tail(@)]
    /\ LET message == TrimSpace(Head(inbuf[c]))
       IN  IF message = ""
           THEN UNCHANGED <<pc, bcast>>
           ELSE /\ pc' = [pc EXCEPT ![c] = "chat"]
                /\ bcast' = [bcast EXCEPT ![c] =
                                [NoCall EXCEPT
                                    !.phase = "append",
                                    !.msg = P2_ChatLine(cname[c], message),
                                    !.sender = c,
                                    !.hist = messages]]
    /\ UNCHANGED <<cnext, peerClosed, closeCalls, outbox, cname, clients,
                   mutex, messages, connCount, everBound>>
    /\ UNCHANGED cli

\* messages = append(messages, formattedMessage) stores the slice it read
\* extended by the line, without the mutex: an append made by another
\* handler in between is overwritten.  Then broadcastMessage is called.
P2_Append(c) ==
    /\ bcast[c].phase = "append"
    /\ messages' = Append(bcast[c].hist, bcast[c].msg)
    /\ bcast' = [bcast EXCEPT ![c] = Call(bcast[c].msg, c)]
    /\ UNCHANGED <<pc, inbuf, cnext, peerClosed, closeCalls, outbox, cname,
                   clients, mutex, connCount, everBound>>
    /\ UNCHANGED cli

\* The peers of this server: no more of them dial than the server has
\* slots, so that the listener never finds the server full.
P2_ClientDial(c) ==
    /\ c <= maxConnections
    /\ ClientDial(c)

\* The steps of the server of part_002 and of its peers.
NextP2 ==
    \/ \E c \in Conns : P2_ClientDial(c)
    \/ \E c \in Conns : ClientSend(c)
    \/ \E c \in Conns : ClientClose(c)
    \/ \E c \in Conns : ListenerAccept(c)
    \/ \E c \in Conns : ListenerReject(c)
    \/ \E c \in Conns : ListenerHandshake(c)
    \/ \E c \in Conns : ListenerAdmit(c)
    \/ \E c \in Conns : HandlerBanner(c)
    \/ \E c \in Conns : HandlerReadNameError(c)
    \/ \E c \in Conns : HandlerEmptyName(c)
    \/ \E c \in Conns : HandlerReadName(c)
    \/ \E c \in Conns : P2_Bind(c)
    \/ \E c \in Conns : P2_Welcome(c)
    \/ \E c \in Conns : P2_Unbind(c)
    \/ \E c \in Conns : HandlerReplay(c)
    \/ \E c \in Conns : P2_Broadcast(c)
    \/ \E c \in Conns : P2_LoopPrivate(c)
    \/ \E c \in Conns : P2_LoopUsage(c)
    \/ \E c \in Conns : P2_LoopList(c)
    \/ \E c \in Conns : P2_LoopChat(c)
    \/ \E c \in Conns : P2_Append(c)
    \/ \E c \in Conns : P2_LoopReadError(c)
    \/ \E c \in Conns : P2_LoopReturn(c)
    \/ \E c \in Conns : HandlerDeferCount(c)
    \/ \E c \in Conns : HandlerDeferDone(c)

SpecP2 == Init /\ [][NextP2]_vars

\* ------------------------- part_002 with a session that sends two lines
\* The connection whose peer sends two chat lines.
Sender == 1

\* The second chat line of the sender.
SecondLine == "world"

\* The frame a peer has just sent.
LastSent(c) == inbuf'[c][Len(inbuf'[c])]

\* The peers of this run: each sends the token; the sender calls itself
\* Alice and the others Bob; each may send the chat line "hello".
ClientSendOrdered(c) ==
    /\ ClientSend(c)
    /\ cnext[c] = 1 => LastSent(c) = Token
    /\ cnext[c] = 2 => LastSent(c) = (IF c = Sender THEN "Alice" ELSE "Bob")
    /\ cnext[c] = 3 => LastSent(c) \in PlainLines

\* The sender writes its second chat line after its first.
ClientSendAgain(c) ==
    /\ c = Sender
    /\ ~peerClosed[c]
    /\ cnext[c] = Finished
    /\ pc[c] \in SendPcs[Len(Script)]
    /\ inbuf' = [inbuf EXCEPT ![c] = Append(@, SecondLine)]
    /\ cnext' = [cnext EXCEPT ![c] = Finished + 1]
    /\ UNCHANGED <<pc, peerClosed, closeCalls, outbox, cname,
                   clients, mutex, messages, connCount>>
    /\ UNCHANGED <<bcast, everBound>>
    /\ UNCHANGED cli

\* The steps of the server of part_002 with these peers.
NextP2Order ==
    \/ \E c \in Conns : P2_ClientDial(c)
    \/ \E c \in Conns : ClientSendOrdered(c)
    \/ \E c \in Conns : ClientSendAgain(c)
    \/ \E c \in Conns : ClientClose(c)
    \/ \E c \in Conns : ListenerAccept(c)
    \/ \E c \in Conns : ListenerReject(c)
    \/ \E c \in Conns : ListenerHandshake(c)
    \/ \E c \in Conns : ListenerAdmit(c)
    \/ \E c \in Conns : HandlerBanner(c)
    \/ \E c \in Conns : HandlerReadNameError(c)
    \/ \E c \in Conns : HandlerReadName(c)
    \/ \E c \in Conns : P2_Bind(c)
    \/ \E c \in Conns : P2_Welcome(c)
    \/ \E c \in Conns : P2_Unbind(c)
    \/ \E c \in Conns : HandlerReplay(c)
    \/ \E c \in Conns : P2_Broadcast(c)
    \/ \E c \in Conns : P2_LoopChat(c)
    \/ \E c \in Conns : P2_Append(c)
    \/ \E c \in Conns : P2_LoopReadError(c)
    \/ \E c \in Conns : P2_LoopReturn(c)
    \/ \E c \in Conns : HandlerDeferCount(c)
    \/ \E c \in Conns : HandlerDeferDone(c)

SpecP2Order == Init /\ [][NextP2Order]_vars

\* ------------------------------------ the client of client/client.go
\* maxRetries := 3
maxRetries == 3

\* A test of the retry count that allows one more attempt.
MayRetryOnceMore(n) == n <= maxRetries

\* retryCount < maxRetries: the test of the loop and of the retry branch.
MayRetry(n) == n < maxRetries

\* All of the server's variables but inbuf.
serverVars == <<pc, cnext, peerClosed, closeCalls, outbox, cname, clients,
                mutex, messages, connCount, bcast, everBound>>

\* net.DialTimeout fails: retryCount++; below the maximum the client sleeps
\* and goes round the loop, else it prints "Max connection attempts
\* reached" and returns.
CliDialFail(p) ==
    /\ cli[p].at = "dial"
    /\ ~cli[p].connected
    /\ MayRetry(cli[p].retryCount)
    /\ cli' = [cli EXCEPT ![p] =
                 [@ EXCEPT !.retryCount = @ + 1,
                           !.dials = @ + 1,
                           !.at = IF MayRetry(cli[p].retryCount + 1)
                                  THEN "sleep" ELSE "exit",
                           !.said = IF MayRetry(cli[p].retryCount + 1)
                                    THEN @ ELSE "max"]]
    /\ UNCHANGED <<serverVars, inbuf>>

\* time.Sleep(reconnectDelay) is over: continue.
CliWake(p) ==
    /\ cli[p].at = "sleep"
    /\ cli' = [cli EXCEPT ![p].at = "dial"]
    /\ UNCHANGED <<serverVars, inbuf>>

\* net.DialTimeout succeeds: connected = true and the loop is left.
CliDialOk(p) ==
    /\ cli[p].at = "dial"
    /\ ~cli[p].connected
    /\ MayRetry(cli[p].retryCount)
    /\ cli' = [cli EXCEPT ![p] =
                 [@ EXCEPT !.connected = TRUE,
                           !.dials = @ + 1,
                           !.at = "connected"]]
    /\ UNCHANGED <<serverVars, inbuf>>

\* conn.Write([]byte("CHAT/1.0\n")): the token is the first frame on the
\* connection; a failed write ends the program (log.Fatalf).
CliHandshake(p) ==
    /\ cli[p].at = "connected"
    /\ \E ok \in BOOLEAN :
          IF ok
          THEN /\ inbuf' = [inbuf EXCEPT ![p] = Append(@, Token)]
               /\ cli' = [cli EXCEPT ![p].at = "handshaken"]
          ELSE /\ inbuf' = inbuf
               /\ cli' = [cli EXCEPT ![p] =
                            [@ EXCEPT !.at = "exit", !.said = "fatal"]]
    /\ UNCHANGED serverVars

\* The connect loops of the client programs, one per connection.
NextClient ==
    \/ \E p \in Conns : CliDialFail(p)
    \/ \E p \in Conns : CliWake(p)
    \/ \E p \in Conns : CliDialOk(p)
    \/ \E p \in Conns : CliHandshake(p)

SpecClient == Init /\ [][NextClient]_vars

\* ================================================================ claims
\* Pcs of a connection whose slot is reserved: admitted, connCount not yet
\* decremented for it.
SlotPcs == {"banner", "readName", "bind", "welcome", "replay", "join",
            "relock", "loop", "deferLock"}

\* The lines of kind k among the lines q.
HasLine(q, k) == \E i \in 1..Len(q) : q[i][1] = k

\* C1: every handler that has bound its name completes the join sequence
\* and reaches the message loop (unless its peer goes away); none stops
\* forever between the bind and the loop.
C1_JoinCompletes ==
    \A c \in Conns :
        (c \in DOMAIN clients) ~> (pc[c] = "loop" \/ peerClosed[c])

\* A handler inside the join sequence waits for the mutex it holds itself.
SelfDeadlock(c) ==
    /\ mutex = c
    /\ \/ pc[c] = "relock"
       \/ pc[c] = "join" /\ bcast[c].phase = "lock"

\* C2: in every reachable state 0 <= connCount <= maxConnections, and
\* connCount is the number of admitted connections whose slot has not been
\* released (no connection is counted or released twice).
C2_CountInRange ==
    /\ 0 <= connCount
    /\ connCount <= maxConnections
    /\ connCount = Cardinality({c \in Conns : pc[c] \in SlotPcs})

\* The counter was at the maximum (a connection was turned away as full),
\* and a slot has been released since.
C2_Witness ==
    /\ \E c \in Conns : pc[c] = "rejected" /\ HasLine(outbox[c], "full")
    /\ \E c \in Conns : pc[c] = "done"
    /\ connCount = maxConnections - 1

C4_ChatDelivered ==
    \A a, b \in Conns :
        (/\ a # b
         /\ cname[a] = "Alice"
         /\ cname[b] = "Bob"
         /\ inbuf[a] = <<"hello">>)
        ~> (\/ \E i \in 1..Len(outbox[b]) :
                   outbox[b][i] = <<"chat", "Alice", "hello">>
            \/ peerClosed[a]
            \/ peerClosed[b])

\* C8: a connection whose handler never bound a name never starts a leave
\* notice: no such handler is inside the leave broadcast, and no session
\* receives a leave line.
C8_NoLeaveWithoutName ==
    /\ \A c \in Conns \ everBound :
          /\ pc[c] # "leave"
          /\ bcast[c].msg = <<>>
    /\ \A d \in Conns :
          HasLine(outbox[d], "left")
             => \E c \in everBound : pc[c] \in {"leave", "done"}

\* Handlers that never bound a name have ended on the three paths: the
\* peer went away before its name line, the name was empty, and the banner
\* could not be written.
C8_Witness ==
    \E a, b \in Conns :
        /\ a # b
        /\ pc[a] = "done" /\ HasLine(outbox[a], "empty")
        /\ pc[b] = "done" /\ ~HasLine(outbox[b], "empty")
        /\ HasLine(outbox[b], "prompt")

\* C9: when the peer of a named session disconnects, the server eventually
\* removes the connection from clients and closes it.
C9_TeardownAfterDisconnect ==
    \A c \in Conns :
        (c \in DOMAIN clients /\ peerClosed[c])
        ~> (c \notin DOMAIN clients /\ closed(c))

\* C10: a connection that is at the admission check while connCount equals
\* maxConnections is sent the "Server is full" line and closed; no handler
\* is started for it, connCount and clients are left as they are, and a
\* rejected connection stays rejected: no prompt, never a key of clients.
C10_FullRejected ==
    [][\A c \in Conns :
          /\ (pc[c] = "admit" /\ connCount = maxConnections
                 /\ pc'[c] # "admit")
             => /\ pc'[c] = "rejected"
                /\ closeCalls'[c] = 1
                /\ connCount' = connCount
                /\ clients' = clients
                /\ bcast' = bcast
                /\ outbox'[c] = IF peerClosed[c] THEN outbox[c]
                                ELSE Append(outbox[c], <<"full">>)
          /\ pc[c] = "rejected"
             => /\ pc'[c] = "rejected"
                /\ outbox'[c] = outbox[c]
                /\ ~HasLine(outbox[c], "prompt")
                /\ c \notin DOMAIN clients'
                /\ closeCalls'[c] = 1]_vars

\* The server is at capacity and a further connection has been turned away
\* with the "Server is full" line.
C10_Witness ==
    /\ connCount = maxConnections
    /\ \E c \in Conns :
          /\ pc[c] = "rejected"
          /\ outbox[c] = << <<"full">> >>
          /\ closed(c)

\* C5: broadcastMessage(message, sender) never writes to the sender's own
\* connection: no step of a fan-out changes what the sender has received,
\* and every call a handler makes names the handler's own connection as
\* the sender.
C5_SenderExcluded ==
    /\ [][\A g \in Procs :
            (bcast[g].phase = "fanout" /\ bcast'[g] # bcast[g])
               => outbox'[bcast[g].sender] = outbox[bcast[g].sender]]_vars
    /\ [](\A c \in Conns : bcast[c].phase # "none" => bcast[c].sender = c)

\* A fan-out whose sender is a connected session of the snapshot is over,
\* and another session has received the line.
C5_Witness ==
    \E g \in Procs :
        /\ bcast[g].phase = "fanout"
        /\ bcast[g].left = {}
        /\ bcast[g].sender \in DOMAIN clients
        /\ ~peerClosed[bcast[g].sender]
        /\ \E r \in Conns \ {bcast[g].sender} :
              \E i \in 1..Len(outbox[r]) : outbox[r][i] = bcast[g].msg

\* How often line l occurs in the sequence q.
Occurrences(l, q) == Cardinality({i \in 1..Len(q) : q[i] = l})

\* How often the peer of c has received history line l: replayed as it
\* stands in the history, or stamped by a live fan-out.
Received(c, l) == Occurrences(l, outbox[c]) + Occurrences(Stamp(l), outbox[c])

\* 1 if l is the chat line that session c itself has appended, else 0.
OwnLine(c, l) ==
    IF /\ \E t \in ChatLines : l = P2_ChatLine(cname[c], t)
       /\ cnext[c] = Finished
       /\ inbuf[c] = <<>>
       /\ bcast[c].phase # "append"
    THEN 1 ELSE 0

\* No session receives a line more often than it stands in the history.
NeverInBoth ==
    \A j \in DOMAIN clients : \A i \in 1..Len(messages) :
        ~peerClosed[j]
           => Received(j, messages[i]) <= Occurrences(messages[i], messages)

\* Once every fan-out is over, a session in the message loop has received
\* every line of the history that is not its own.
NeverInNeither ==
    \A j \in DOMAIN clients : \A i \in 1..Len(messages) :
        (/\ ~peerClosed[j]
         /\ pc[j] = "loop"
         /\ \A g \in Conns : bcast[g].phase = "none")
           => Received(j, messages[i]) >=
                 Occurrences(messages[i], messages) - OwnLine(j, messages[i])

\* C6: a session that joins while another session's chat line is appended
\* to the history and fanned out receives that line exactly once, in its
\* replay or as a live line: never in both and never in neither.
C6_ExactlyOnce == NeverInBoth /\ NeverInNeither

\* C7: a session whose handler has bound its name and finished the replay
\* has received, after its welcome line, exactly the lines of the history:
\* same content, same order, none skipped.
C7_HistoryReplayed ==
    \A c \in Conns :
        (pc[c] = "join" /\ ~peerClosed[c])
           => outbox[c] = << <<"banner">>, <<"prompt">>,
                             <<"welcome", cname[c]>> >> \o messages

\* A session has joined on a history of two different lines.
C7_Witness ==
    \E c \in Conns :
        /\ pc[c] = "join"
        /\ ~peerClosed[c]
        /\ Len(messages) = 2
        /\ messages[1] # messages[2]

\* The first read of the listener on c fails or returns a frame that does
\* not start with the token.
BadFirstRead(c) ==
    \/ inbuf[c] # <<>> /\ ~(Head(inbuf[c]) \in {Token, TokenPlus})
    \/ inbuf[c] = <<>> /\ peerClosed[c]

EmptyNameTurnedAway ==
    \A c \in Conns :
        HasLine(outbox[c], "empty")
           => /\ closed(c)
              /\ c \notin DOMAIN clients
              /\ c \notin everBound
              /\ bcast[c] = NoCall
              /\ pc[c] \in {"deferLock", "deferCheck", "done"}

\* C12: a name that is empty or only whitespace is rejected: the connection
\* is sent the "Name cannot be empty" line and closed, it is never added to
\* clients, no join or leave notice is broadcast for it, and the slot it
\* reserved is released (its handler's closure decrements connCount and
\* ends).
C12_EmptyNameRejected ==
    /\ []EmptyNameTurnedAway
    /\ \A c \in Conns : HasLine(outbox[c], "empty") ~> (pc[c] = "done")

\* The step of a handler that finds its name in use, taken by itself: the
\* "Name is already in use" line is written, the connection is closed (by
\* the handler and again by the closure), clients and connCount are left as
\* they are and the mutex is free again when the closure starts.
DuplicateStepRejects ==
    [][\A c \in Conns :
          (/\ pc[c] = "bind"
           /\ c \notin DOMAIN clients
           /\ NameInUse(clients, cname[c])
           /\ pc'[c] # "bind")
             => /\ pc'[c] = "deferLock"
                /\ closeCalls'[c] = closeCalls[c] + 2
                /\ clients' = clients
                /\ connCount' = connCount
                /\ mutex' = Free
                /\ outbox'[c] = IF peerClosed[c] THEN outbox[c]
                                ELSE Append(outbox[c], <<"dup">>)]_vars

\* C13: a handler whose candidate name is bound to another live connection
\* rejects it: while both peers stay connected, the connection is closed
\* by the server and is not added to clients.
C13_DuplicateRejected ==
    \A a, b \in Conns :
        (/\ a # b
         /\ a \in DOMAIN clients
         /\ pc[b] = "bind"
         /\ cname[b] = clients[a])
        ~> (\/ closed(b) /\ b \notin DOMAIN clients
            \/ peerClosed[a]
            \/ peerClosed[b])

\* Session c is a key of clients, its peer is connected and the one line
\* waiting to be read by its handler is `line`.
HasSent(c, line) ==
    /\ c \in DOMAIN clients
    /\ ~peerClosed[c]
    /\ inbuf[c] = <<line>>

\* The line of more than 1024 bytes is in no history and was written to no
\* session.
LongLineNowhere ==
    /\ \A i \in 1..Len(messages) : messages[i][3] # "LONG"
    /\ \A d \in Conns : \A i \in 1..Len(outbox[d]) :
          outbox[d][i][Len(outbox[d][i])] # "LONG"

\* C14: a chat line of more than 1024 bytes is answered to its sender with
\* the size-limit notice (while the sender stays connected); it is not
\* appended to the history and is written to no session.
C14_LongLineRefused ==
    /\ []LongLineNowhere
    /\ \A c \in Conns :
          HasSent(c, "LONG")
             ~> (HasLine(outbox[c], "toolong") \/ peerClosed[c])

\* C15: a client that has bound the name Alice and sends `/msg Bob hi`
\* while no session named Bob is bound eventually receives the line
\* "User Bob not found" (unless it disconnects or a Bob is bound).
C15_UnknownRecipient ==
    \A c \in Conns :
        (HasSent(c, "/msg Bob hi") /\ clients[c] = "Alice"
            /\ "Bob" \notin NamesOf(clients))
        ~> (\/ \E i \in 1..Len(outbox[c]) :
                   outbox[c][i] = <<"notfound", "Bob">>
            \/ peerClosed[c]
            \/ "Bob" \in NamesOf(clients))

\* C16: once Alice and Bob have both handed in their names and stay
\* connected, a `/msg Bob hi` sent by Alice is eventually written to Bob's
\* connection as a private line tagged with Alice's name.
C16_PrivateDelivered ==
    \A a, b \in Conns :
        (/\ a # b
         /\ cname[a] = "Alice"
         /\ cname[b] = "Bob"
         /\ inbuf[a] = <<"/msg Bob hi">>)
        ~> (\/ \E i \in 1..Len(outbox[b]) :
                   outbox[b][i] = <<"pm", "Alice", "hi">>
            \/ peerClosed[a]
            \/ peerClosed[b])

\* C17: a session that sends /list eventually receives the list of the
\* names bound in clients (unless it disconnects).
C17_ListAnswered ==
    \A c \in Conns :
        HasSent(c, "/list") ~> (HasLine(outbox[c], "list") \/ peerClosed[c])

\* In main.go a /msg line with fewer than three parts is treated as a chat
\* line.
MalformedMsgIsChat == LoopReaction("/msg Bob") = "chat"

\* The usage step of part_002 changes nothing but what the sender has
\* received.
P2_UsageOnly ==
    [][\A c \in Conns :
          (/\ pc[c] = "loop"
           /\ inbuf[c] # <<>>
           /\ Head(inbuf[c]) = "/msg Bob"
           /\ inbuf'[c] # inbuf[c])
             => /\ outbox' = [outbox EXCEPT ![c] =
                                 IF peerClosed[c] THEN @
                                 ELSE Append(@, <<"usage">>)]
                /\ messages' = messages
                /\ clients' = clients
                /\ bcast' = bcast
                /\ pc' = pc]_vars

\* C18: a session that sends a /msg line with fewer than three parts is
\* eventually answered with the usage line (unless it disconnects), and the
\* line is never appended to the history.
C18_UsageAnswered ==
    /\ [](\A i \in 1..Len(messages) : messages[i][3] # "/msg Bob")
    /\ \A c \in Conns :
          HasSent(c, "/msg Bob")
             ~> (HasLine(outbox[c], "usage") \/ peerClosed[c])

\* C19: every reserved slot is eventually released: once the peer of an
\* admitted connection has gone, connCount is eventually decremented for
\* it.
C19_SlotReleased ==
    \A c \in Conns :
        (pc[c] \in SlotPcs /\ peerClosed[c]) ~> (pc[c] \notin SlotPcs)

\* C20: the connect loop of the client ends after at most 3 dial attempts:
\* while it is in the loop every dial so far has failed and fewer than 3
\* were made; the first successful dial ends the dialling and the token is
\* the first and only frame written after it; after 3 failed dials the
\* client reports that the maximum was reached and has written nothing.
C20_ConnectLoopBounded ==
    \A p \in Conns :
        /\ cli[p].dials <= maxRetries
        /\ cli[p].at \in {"dial", "sleep"}
              => /\ ~cli[p].connected
                 /\ cli[p].retryCount < maxRetries
                 /\ cli[p].dials = cli[p].retryCount
        /\ cli[p].connected => cli[p].dials = cli[p].retryCount + 1
        /\ cli[p].said = "max"
              => /\ cli[p].at = "exit"
                 /\ cli[p].retryCount = maxRetries
                 /\ ~cli[p].connected
                 /\ inbuf[p] = <<>>
        /\ inbuf[p] # <<>> => cli[p].connected /\ inbuf[p] = <<Token>>
        /\ cli[p].at = "handshaken" => inbuf[p] = <<Token>>

\* One client has given up after 3 failed dials, another has sent the token
\* after its third dial succeeded.
C20_Witness ==
    \E p, q \in Conns :
        /\ cli[p].said = "max"
        /\ cli[p].dials = maxRetries
        /\ cli[q].at = "handshaken"
        /\ cli[q].dials = maxRetries

\* C21: the history replay to a newly named connection is completed before
\* the connection is inserted into clients: no key of clients has a
\* handler that is still before or inside its replay.
C21_ReplayBeforeInsert ==
    \A c \in DOMAIN clients : pc[c] \notin {"welcome", "replay"}

\* C22: the listener makes the admission check before it reads the
\* handshake frame: while the server is full the listener never waits for
\* the first bytes of a connection.
C22_AdmissionBeforeHandshake ==
    \A c \in Conns : pc[c] = "handshake" => ~ServerFull(connCount)

\* C23: the listener never waits on one connection's I/O: a connection in
\* the backlog whose peer has sent the token and stays connected is
\* eventually accepted.
C23_ListenerNeverWaits ==
    \A c \in Conns :
        (pc[c] = "backlog" /\ inbuf[c] = <<Token>>)
        ~> (pc[c] # "backlog" \/ peerClosed[c])

\* C24: no goroutine writes to a peer connection while it holds the
\* registry mutex: a handler that holds the mutex adds nothing to what its
\* peer has received.
C24_NoWriteUnderMutex ==
    [][\A c \in Conns : mutex = c => outbox'[c] = outbox[c]]_vars

\* A handler is at the closure's test of clients[conn], which it makes
\* after mutex.Unlock(), while another handler is about to insert its name.
MapRace ==
    \E a, b \in Conns :
        /\ a # b
        /\ pc[a] = "deferCheck"
        /\ mutex # a
        /\ pc[b] = "bind"

\* C25: every read, insertion and deletion on clients is made by a
\* goroutine that holds the mutex, so that no access is concurrent with a
\* write.
C25_MapUnderMutex ==
    /\ \A c \in Conns : pc[c] = "deferCheck" => mutex = c
    /\ ~MapRace

\* C26: the server closes each accepted connection at most once.
C26_ClosedOnce ==
    \A c \in Conns : closeCalls[c] <= 1

\* C27: when the write of the welcome line fails, the session's binding is
\* removed, its connection is closed and its slot is released.
C27_WelcomeFailureContained ==
    \A c \in Conns :
        (pc[c] = "relock")
        ~> (c \notin DOMAIN clients /\ closed(c) /\ pc[c] \notin SlotPcs)

\* Goroutine g takes a step of its fan-out loop.
FanoutStep(g) ==
    /\ bcast[g].phase = "fanout"
    /\ bcast'[g] # bcast[g]

C29_FailureTearsDown ==
    \A g \in Procs : \A r \in Conns :
        (bcast[g].phase = "remove" /\ bcast[g].failed = r)
        ~> (r \notin DOMAIN clients /\ closed(r))

\* C30: a broadcast fans out over a snapshot: the connections to serve are
\* the keys of clients at the one step that copies them, taken with the
\* mutex free for the taking; afterwards the set only shrinks, and a write
\* that is not a handler's own (no handler moves) goes to a connection
\* that some fan-out takes off its set with that step, never to its sender.
C30_FanoutOverSnapshot ==
    [][/\ \A g \in Procs :
            /\ (bcast[g].phase = "lock" /\ bcast'[g].phase = "fanout") =>
                  /\ mutex = Free
                  /\ bcast'[g].left = DOMAIN clients
            /\ (/\ bcast[g].phase \in {"fanout", "remove"}
                /\ bcast'[g].phase \in {"fanout", "remove"}) =>
                  bcast'[g].left \subseteq bcast[g].left
       /\ \A d \in Conns :
            (outbox'[d] # outbox[d] /\ pc' = pc) =>
               \E g \in Procs :
                  /\ bcast[g].phase = "fanout"
                  /\ d \in bcast[g].left \ bcast'[g].left
                  /\ d # bcast[g].sender]_vars

\* A fan-out is over, a registered session has received its line, and a
\* connected session of clients, not the sender, has not: that session was
\* bound after the copy.
C30_Witness ==
    \E g \in Procs :
        /\ bcast[g].phase = "fanout"
        /\ bcast[g].left = {}
        /\ \E d \in Conns :
              /\ pc[d] = "session"
              /\ \E i \in 1..Len(outbox[d]) : outbox[d][i] = bcast[g].msg
        /\ \E c \in DOMAIN clients :
              /\ c # bcast[g].sender
              /\ ~peerClosed[c]
              /\ \A i \in 1..Len(outbox[c]) : outbox[c][i] # bcast[g].msg

\* Pcs of a handler that has bound its name and has not yet turned to its
\* teardown: the join sequence and the message loop.
LivePcs == {"welcome", "replay", "join", "relock", "loop", "chat"}

LeftLoopPcs == {"leaveLoop", "return", "deferLock", "deferCheck", "leave",
                "done"}

\* Handler c calls broadcastMessage with a leave notice in this step.
LeaveCall(c) ==
    /\ bcast[c] = NoCall
    /\ bcast'[c] # NoCall
    /\ bcast'[c].msg[1] = "left"

FirstChat == P2_ChatLine("Alice", "hello")
SecondChat == P2_ChatLine("Alice", SecondLine)

\* Line b is nowhere before line a in q.
NoInversion(q, a, b) ==
    \A i, j \in 1..Len(q) : (q[i] = b /\ q[j] = a) => j < i

IsFanoutLine(l) ==
    /\ Len(l) >= 2
    /\ l[1] = "ts"
    /\ l[2] \in {"ts", "join", "left"}

\* C34: every line that a fan-out has written to a recipient (chat line,
\* join notice, leave notice) is in the messages history.
C34_FanoutInHistory ==
    \A d \in Conns : \A i \in 1..Len(outbox[d]) :
        IsFanoutLine(outbox[d][i]) =>
           \E k \in 1..Len(messages) : messages[k] = Tail(outbox[d][i])

\* C35: messages is append-only: a line stored at an index stays at that
\* index unchanged.
C35_AppendOnly ==
    [][\A i \in 1..Len(messages) :
          /\ Len(messages') >= i
          /\ messages'[i] = messages[i]]_vars

\* C36: when Alice sends `/msg Bob hi` and Bob, who has handed in his name,
\* has gone, so that the private line cannot be written to him, Alice is
\* eventually sent a failure notice (unless she disconnects).
C36_PrivateFailureReported ==
    \A a, b \in Conns :
        (/\ a # b
         /\ cname[a] = "Alice"
         /\ cname[b] = "Bob"
         /\ peerClosed[b]
         /\ inbuf[a] = <<"/msg Bob hi">>)
        ~> (\/ \E i \in 1..Len(outbox[a]) :
                   outbox[a][i] \in {<<"pmfailed", "Bob">>,
                                     <<"notfound", "Bob">>}
            \/ peerClosed[a])

\* C37: no chat line and no private-message line that the loop writes on
\* account of an accepted input line is longer than the frame cap of 1024
\* bytes.
C37_WrittenWithinCap ==
    \A c \in Conns : \A i \in 1..Len(outbox[c]) :
        outbox[c][i][1] \in {"chat", "pm", "pmto"}
           => WireLen(outbox[c][i]) <= MaxMessage

\* C38: the listener admits a connection to the admission test only when
\* its first frame is exactly the protocol token.
C38_ExactToken ==
    [][\A c \in Conns :
          (pc[c] = "handshake" /\ pc'[c] = "admit")
             => Head(inbuf[c]) = Token]_vars

\* C39: no bytes are lost between the handshake and the name: while the
\* peer of an admitted connection has sent its name line and nothing after
\* it and the handler has not yet read a name, the name line is there to be
\* read.
C39_NameLineKept ==
    \A c \in Conns :
        (/\ pc[c] \in {"admit", "banner", "readName"}
         /\ ~peerClosed[c]
         /\ cnext[c] = 3)
        => inbuf[c] # <<>>

====
